---- MODULE Spec2Model ----
(***************************************************************************)
(* The OAuth 2 dance of flask_dance/consumer/oauth2.py:                    *)
(* OAuth2ConsumerBlueprint.login and OAuth2ConsumerBlueprint.authorized,   *)
(* run by several browsers (users) against one blueprint object and the    *)
(* one OAuth2Session object that blueprint owns.                           *)
(*                                                                         *)
(* Python values are modelled as strings: None, a missing dict key or      *)
(* query argument (Absent), "" and ordinary text.  Each view function is   *)
(* one action; a request is handled from start to end in one step, as one  *)
(* request is handled by one thread of the web server.                     *)
(*                                                                         *)
(* Spec is the dance on one blueprint; SpecFlows is the dance of one user  *)
(* on two blueprints; SpecSession is the use of the blueprint and of its   *)
(* OAuth2Session outside the dance: load_token, the client_id property and *)
(* outbound requests.                                                      *)
(***************************************************************************)
EXTENDS Integers, Sequences, FiniteSets, TLC

\* ------------------------------------------------------------- bounds
MaxRequests == 3        \* requests handled in one behaviour

\* ------------------------------------------------------ Python values
None == "<None>"
Absent == "<absent>"
PyFalse == "<False>"
PyTrue == "<True>"
PyZero == "<0>"

\* bool(x) of a string-or-None value
Truthy(x) == x \notin {None, Absent, ""}

\* ------------------------------------------------------------- domains
Users == {"u1", "u2"}
Blueprints == {"google"}

\* tokens a provider can answer the exchange with
Tokens == {"tokA", "tokB"}
ExchangeFailed == "<exchange failed>"
ProviderAnswers == Tokens \cup {ExchangeFailed}

\* what a receiver of oauth_authorized can return
Returns == {None, PyFalse, PyZero, PyTrue}
ListenerResults ==
    {<<>>, <<None>>, <<PyZero>>, <<None, PyFalse>>, <<PyFalse, PyTrue>>}

\* constructor arguments (oauth2.py:160-168)
Configs ==
    [redirect_url : {None, "/b"}, redirect_to : {None, "home"}, state : {None}]
    \cup
    [redirect_url : {None}, redirect_to : {None}, state : {"fixedstate"}]

\* url_for(endpoint) of the application's routes
url_for(endpoint) == IF endpoint = "home" THEN "/c" ELSE "/" \o endpoint

NoUri == [scheme |-> Absent, next |-> Absent]
NoRequest == [sent |-> FALSE, code |-> Absent, state |-> Absent, redirect_uri |-> NoUri,
              authorization_response |-> Absent]

\* a URL: scheme, host, whether its path starts with "/", the segments of the
\* path, and whether it ends with "/"
Url(scheme, netloc, rooted, path, dir) ==
    [scheme |-> scheme, netloc |-> netloc, rooted |-> rooted, path |-> path, dir |-> dir]
\* URLObject(""), and URLObject(None), which is the text "None" where URLObject
\* converts its argument as text
EmptyUrl == Url("", "", FALSE, <<>>, FALSE)
NoneUrl == Url("", "", FALSE, <<"None">>, FALSE)
\* https://api.example.com/v1/ and https://api.example.com/v1
BaseUrls == {Url("https", "api.example.com", TRUE, <<"v1">>, d) : d \in BOOLEAN}
\* users/me, users/, /users/me, //cdn.example.com/me, https://other.example.com/me
RequestUrls ==
    {Url("", "", FALSE, <<"users", "me">>, FALSE), Url("", "", FALSE, <<"users">>, TRUE),
     Url("", "", TRUE, <<"users", "me">>, FALSE),
     Url("", "cdn.example.com", TRUE, <<"me">>, FALSE),
     Url("https", "other.example.com", TRUE, <<"me">>, FALSE)}

ClientIds == {"cid", "cid2", "cid3"}

NoSession == [redirect_uri |-> NoUri, _state |-> None,
              token |-> None, client_token |-> None, access_token |-> None,
              client_id |-> "cid", client_client_id |-> "cid",
              base_url |-> EmptyUrl, auto_refresh_url |-> None]
\* blueprint.user and blueprint.user_id before any load_token(user, user_id)
NoUser == [user |-> None, user_id |-> None]
\* arguments of OAuth2Session.request
NoApiRequest == [method |-> "GET", url |-> EmptyUrl, data |-> None, headers |-> None,
                 kwargs |-> None]
NoCall == [op |-> "none", bp |-> "", user |-> None, value |-> None, loaded |-> None,
           request |-> NoApiRequest, forwarded |-> NoApiRequest, bearer |-> None,
           steps |-> <<>>, response |-> "none"]

VARIABLES
    config,         \* blueprint -> its constructor arguments
    flask_session,  \* user -> key -> value: flask.session of each browser
    session,        \* blueprint -> the fields of its OAuth2Session (self.session)
    token_store,    \* blueprint -> user -> token held by the token storage
    generated,      \* number of generate_token() calls so far
    nreq,           \* number of requests handled so far
    last,           \* the request handled last and what the handler did
    issued,         \* history: the states login() stored, in order
    login_uri,      \* history: blueprint -> user -> redirect_uri of the user's last login()
    bp_user,        \* blueprint -> its user and user_id attributes
    call            \* the call made last on a blueprint or session outside the views

vars == <<config, flask_session, session, token_store, generated, nreq, last, issued,
          login_uri, bp_user, call>>

\* --------------------------------------------------------- pure parts

\* faulty variant of state_key: the name of the blueprint is left out
state_key_unnamed(name) == "oauth_state"

\* "{bp.name}_oauth_state".format(bp=self)
state_key(name) == name \o "_oauth_state"
Keys == {state_key(b) : b \in Blueprints}

\* oauthlib.common.generate_token: the n-th random token
generate_token(n) == "s" \o ToString(n)

\* login: secure = request.is_secure or X-Forwarded-Proto == "https"
Secure(is_secure, xfp) == is_secure \/ xfp = "https"

\* faulty variant of CallbackUri: the next argument is not passed to url_for
CallbackUriWithoutNext(secure, next) ==
    [scheme |-> IF secure THEN "https" ELSE "http", next |-> Absent]

\* login: url_for(".authorized", next=request.args.get('next'), _external=True, _scheme=...)
\* (url_for leaves a None argument out of the query string)
CallbackUri(secure, next) ==
    [scheme |-> IF secure THEN "https" ELSE "http", next |-> next]

\* faulty variant of AuthorizationState: the state generated first is used again
AuthorizationStateReused(cfg_state, n) ==
    IF Truthy(cfg_state) THEN cfg_state ELSE generate_token(1)

\* login: session.authorization_url(url, state=self.state): state = state or self.new_state()
AuthorizationState(cfg_state, n) ==
    IF Truthy(cfg_state) THEN cfg_state ELSE generate_token(n + 1)

\* faulty variant of NextUrl: redirect_to is looked at before redirect_url
NextUrlEndpointFirst(cfg, args) ==
    IF args.next # Absent THEN args.next
    ELSE IF Truthy(cfg.redirect_to) THEN url_for(cfg.redirect_to)
    ELSE IF Truthy(cfg.redirect_url) THEN cfg.redirect_url
    ELSE "/"

\* authorized: the choice of next_url
NextUrl(cfg, args) ==
    IF args.next # Absent THEN args.next
    ELSE IF Truthy(cfg.redirect_url) THEN cfg.redirect_url
    ELSE IF Truthy(cfg.redirect_to) THEN url_for(cfg.redirect_to)
    ELSE "/"

\* faulty variant of HasError: the wrong query argument is tested
HasErrorDescription(args) == Truthy(args.error_description)

\* authorized: error = request.args.get("error"); if error:
HasError(args) == Truthy(args.error)

\* faulty variant of Vetoed: all() in place of any()
VetoedByAll(results) ==
    /\ results # <<>>
    /\ \A i \in 1..Len(results) : results[i] \in {PyFalse, PyZero}

\* authorized: any(ret == False for func, ret in results); in Python 0 == False
Vetoed(results) == \E i \in 1..Len(results) : results[i] \in {PyFalse, PyZero}

\* faulty variant of StateMatches: the state of any login() so far is accepted
StateOfAnyLogin(expected, args) ==
    ~Truthy(expected) \/ args.state \in {issued[i].state : i \in 1..Len(issued)}

\* faulty variant of StateMatches: the state of the callback is not looked at
StateUnchecked(expected, args) == TRUE

\* fetch_token -> parse_request_uri_response(url, state=self._state):
\* if state and params.get('state') != state: raise MismatchingStateError
StateMatches(expected, args) == ~Truthy(expected) \/ args.state = expected

\* faulty variant of ResponseScheme: request.url is taken to be http
ResponseSchemeOfHeader(is_secure, xfp) ==
    IF xfp = "https" THEN "https" ELSE "http"

\* authorized: URLObject(request.url), with_scheme("https") if forwarded as https
ResponseScheme(is_secure, xfp) ==
    IF xfp = "https" THEN "https" ELSE IF is_secure THEN "https" ELSE "http"

\* faulty variant of del_state: the key is left in flask.session
del_state_forgotten(fs, u, key) == fs

\* authorized: del flask.session[state_key]
del_state(fs, u, key) == [fs EXCEPT ![u][key] = Absent]

\* BaseOAuthConsumerBlueprint.set_token (self.token = token): write through to the
\* token storage, for the user of the request
set_token(store, b, u, token) == [store EXCEPT ![b][u] = token]

\* the token storage after the given writes, in order
RECURSIVE Written(_, _, _, _)
Written(store, b, u, writes) ==
    IF writes = <<>> THEN store
    ELSE Written(set_token(store, b, u, Head(writes)), b, u, Tail(writes))

\* ------------------------------------------------------ requests, events

\* a request: its query arguments, request.is_secure and its X-Forwarded-Proto
\* header (whose default, when the header is missing, is "http")
NoArgs == [next |-> Absent, error |-> Absent, error_description |-> Absent,
           error_uri |-> Absent, state |-> Absent, code |-> Absent,
           is_secure |-> FALSE, xfp |-> "http"]

\* GET /{name}: with and without next, and over each transport
LoginRequests ==
    {[NoArgs EXCEPT !.next = n] : n \in {Absent, "/a"}}
    \cup
    {[NoArgs EXCEPT !.is_secure = t, !.xfp = x] : t \in BOOLEAN, x \in {"http", "https"}}

\* the state values a callback can carry: a made-up one, or one a login() issued
StateParams == {"forged"} \cup {issued[i].state : i \in 1..Len(issued)}

\* GET /{name}/authorized: the provider's error answer (RFC 6749 4.1.2.1); a callback
\* with code and state, with each next and over each transport; one with an empty
\* error; one without code; one without state
CallbackRequests ==
    {[NoArgs EXCEPT !.next = n, !.error = "access_denied", !.error_description = d[1],
                    !.error_uri = d[2]] :
        n \in {Absent, "/a"}, d \in {<<Absent, Absent>>, <<"denied", "http://e">>}}
    \cup
    {[NoArgs EXCEPT !.next = n, !.state = s, !.code = "abc"] :
        n \in {Absent, "", "/a"}, s \in StateParams}
    \cup
    {[NoArgs EXCEPT !.state = s, !.code = "abc", !.is_secure = t, !.xfp = x] :
        s \in StateParams, t \in BOOLEAN, x \in {"http", "https"}}
    \cup
    {[NoArgs EXCEPT !.error = "", !.state = s, !.code = "abc"] : s \in StateParams}
    \cup
    {[NoArgs EXCEPT !.state = s] : s \in StateParams}
    \cup
    {[NoArgs EXCEPT !.code = "abc"]}

\* oauth_error.send(self, error=..., error_description=..., error_uri=...)
oauth_error(args) ==
    [name |-> "oauth_error", error |-> args.error,
     error_description |-> args.error_description, error_uri |-> args.error_uri,
     token |-> None]

\* oauth_authorized.send(self, token=token)
oauth_authorized(token) ==
    [name |-> "oauth_authorized", error |-> Absent, error_description |-> Absent,
     error_uri |-> Absent, token |-> token]

\* flask.redirect(location), and an exception leaving the view function
redirect(location) == [kind |-> "redirect", to |-> location]
raise(exception) == [kind |-> "raise", to |-> exception]

\* the record kept of one handled request
Handled(op, b, u, args, branch, response, sent, token, results, events, writes) ==
    [op |-> op, bp |-> b, user |-> u, args |-> args,
     branch |-> branch, response |-> response, sent |-> sent, token |-> token,
     results |-> results, events |-> events, writes |-> writes]

Init ==
    /\ config \in [Blueprints -> Configs]
    /\ flask_session = [u \in Users |-> [k \in Keys |-> Absent]]
    /\ session = [b \in Blueprints |-> NoSession]
    /\ token_store = [b \in Blueprints |-> [u \in Users |-> None]]
    /\ generated = 0
    /\ nreq = 0
    /\ last = Handled("none", "", "", NoArgs, "none", redirect(""),
                      NoRequest, None, <<>>, <<>>, <<>>)
    /\ issued = <<>>
    /\ login_uri = [b \in Blueprints |-> [u \in Users |-> NoUri]]
    /\ bp_user = [b \in Blueprints |-> NoUser]
    /\ call = NoCall

\* ------------------------------------------------------------- login()
login(b, u, args) ==
    LET secure == Secure(args.is_secure, args.xfp)
        uri == CallbackUri(secure, args.next)
        fresh == ~Truthy(config[b].state)
        state == AuthorizationState(config[b].state, generated)
    IN  /\ nreq' = nreq + 1
        \* self.session.redirect_uri = url_for(...); new_state() sets session._state
        /\ session' = [session EXCEPT ![b].redirect_uri = uri,
                                      ![b]._state = IF fresh THEN state ELSE @]
        /\ generated' = IF fresh THEN generated + 1 ELSE generated
        \* flask.session[state_key] = state
        /\ flask_session' = [flask_session EXCEPT ![u][state_key(b)] = state]
        \* return redirect(url): sent holds the state and redirect_uri put in url
        /\ last' = Handled("login", b, u, args, "login", redirect("authorization_url"),
                           [NoRequest EXCEPT !.state = state, !.redirect_uri = uri],
                           None, <<>>, <<>>, <<>>)
        /\ issued' = Append(issued, [bp |-> b, state |-> flask_session'[u][state_key(b)]])
        /\ login_uri' = [login_uri EXCEPT ![b][u] = uri]
        /\ UNCHANGED <<config, token_store, bp_user, call>>

\* -------------------------------------------------------- authorized()

\* if error: log, oauth_error.send, return redirect(next_url)
AuthorizedError(b, u, args) ==
    /\ last' = Handled("authorized", b, u, args, "provider_error",
                       redirect(NextUrl(config[b], args)), NoRequest, None, <<>>,
                       <<oauth_error(args)>>, <<>>)
    /\ UNCHANGED <<flask_session, session, token_store>>

\* self.session._state = flask.session[state_key] with no such key: KeyError
AuthorizedNoState(b, u, args) ==
    /\ last' = Handled("authorized", b, u, args, "no_state",
                       raise("KeyError"), NoRequest, None, <<>>, <<>>, <<>>)
    /\ UNCHANGED <<flask_session, session, token_store>>

\* fetch_token: parse_request_uri_response raises before any request is made
AuthorizedRejected(b, u, args, exception) ==
    /\ flask_session' = del_state(flask_session, u, state_key(b))
    /\ session' = [session EXCEPT ![b]._state = flask_session[u][state_key(b)]]
    /\ last' = Handled("authorized", b, u, args, "rejected",
                       raise(exception), NoRequest, None, <<>>, <<>>, <<>>)
    /\ UNCHANGED token_store

\* the request fetch_token posts to token_url, given the callback URL as
\* authorization_response and self._state as the state to check it against
TokenRequest(b, args) ==
    [sent |-> TRUE, code |-> args.code, state |-> session'[b]._state,
     redirect_uri |-> session[b].redirect_uri,
     authorization_response |-> ResponseScheme(args.is_secure, args.xfp)]

\* faulty variant of AuthorizedExchangeFailed: the failure is caught and the
\* browser redirected
AuthorizedExchangeFailedCaught(b, u, args) ==
    /\ flask_session' = del_state(flask_session, u, state_key(b))
    /\ session' = [session EXCEPT ![b]._state = flask_session[u][state_key(b)]]
    /\ last' = Handled("authorized", b, u, args, "exchange_failed",
                       redirect(NextUrl(config[b], args)), TokenRequest(b, args),
                       None, <<>>, <<>>, <<>>)
    /\ UNCHANGED token_store

\* fetch_token: the token endpoint does not answer with a token
AuthorizedExchangeFailed(b, u, args) ==
    /\ flask_session' = del_state(flask_session, u, state_key(b))
    /\ session' = [session EXCEPT ![b]._state = flask_session[u][state_key(b)]]
    /\ last' = Handled("authorized", b, u, args, "exchange_failed",
                       raise("OAuth2Error"), TokenRequest(b, args),
                       None, <<>>, <<>>, <<>>)
    /\ UNCHANGED token_store

\* fetch_token returns a token; oauth_authorized.send; self.token = token unless vetoed
AuthorizedGranted(b, u, args, token, results) ==
    LET writes == IF Vetoed(results) THEN <<>> ELSE <<token>> IN
    /\ flask_session' = del_state(flask_session, u, state_key(b))
    /\ session' = [session EXCEPT ![b]._state = flask_session[u][state_key(b)],
                                  ![b].token = token,
                                  ![b].client_token = token,
                                  ![b].access_token = token]
    /\ token_store' = Written(token_store, b, u, writes)
    /\ last' = Handled("authorized", b, u, args,
                       IF Vetoed(results) THEN "vetoed" ELSE "saved",
                       redirect(NextUrl(config[b], args)), TokenRequest(b, args),
                       token, results, <<oauth_authorized(token)>>, writes)

authorized(b, u, args) ==
    LET stored == flask_session[u][state_key(b)]
    IN  /\ nreq' = nreq + 1
        /\ IF HasError(args)
             THEN AuthorizedError(b, u, args)
           ELSE IF stored = Absent
             THEN AuthorizedNoState(b, u, args)
           \* fetch_token parses the callback URL before it posts to token_url
           ELSE IF ~StateMatches(stored, args)
             THEN AuthorizedRejected(b, u, args, "MismatchingStateError")
           ELSE IF args.code = Absent
             THEN AuthorizedRejected(b, u, args, "MissingCodeError")
           ELSE \E answer \in ProviderAnswers :
                  IF answer = ExchangeFailed
                  THEN AuthorizedExchangeFailed(b, u, args)
                  ELSE \E results \in ListenerResults :
                         AuthorizedGranted(b, u, args, answer, results)
        /\ UNCHANGED <<config, generated, issued, login_uri, bp_user, call>>

Login ==
    /\ nreq < MaxRequests
    /\ \E b \in Blueprints, u \in Users, args \in LoginRequests :
        login(b, u, args)

Authorized ==
    /\ nreq < MaxRequests
    /\ \E b \in Blueprints, u \in Users, args \in CallbackRequests :
        authorized(b, u, args)

Next == Login \/ Authorized

Spec == Init /\ [][Next]_vars

\* ------------------------------------------- the dance on two blueprints

\* a second blueprint registered on the application beside the first
AllBlueprints == Blueprints \cup {"github"}
AllKeys == {state_key(b) : b \in AllBlueprints}

\* both blueprints constructed alike, without or with a state argument
InitFlows ==
    /\ config \in {[b \in AllBlueprints |-> c] :
                     c \in {k \in Configs : k.redirect_url = None /\ k.redirect_to = None}}
    /\ flask_session = [u \in Users |-> [k \in AllKeys |-> Absent]]
    /\ session = [b \in AllBlueprints |-> NoSession]
    /\ token_store = [b \in AllBlueprints |-> [u \in Users |-> None]]
    /\ generated = 0
    /\ nreq = 0
    /\ last = Handled("none", "", "", NoArgs, "none", redirect(""),
                      NoRequest, None, <<>>, <<>>, <<>>)
    /\ issued = <<>>
    /\ login_uri = [b \in AllBlueprints |-> [u \in Users |-> NoUri]]
    /\ bp_user = [b \in AllBlueprints |-> NoUser]
    /\ call = NoCall

\* the one user whose browser runs both dances
FlowUser == "u1"

\* requests over plain http, without next and without error details
Plain(args) ==
    /\ args.next = Absent /\ args.error_description = Absent
    /\ ~args.is_secure /\ args.xfp = "http"

LoginFlows ==
    /\ nreq < MaxRequests + 1
    /\ \E b \in AllBlueprints, args \in {r \in LoginRequests : Plain(r)} :
          login(b, FlowUser, args)

AuthorizedFlows ==
    /\ nreq < MaxRequests + 1
    /\ \E b \in AllBlueprints, args \in {r \in CallbackRequests : Plain(r)} :
          authorized(b, FlowUser, args)

NextFlows == LoginFlows \/ AuthorizedFlows

SpecFlows == InitFlows /\ [][NextFlows]_vars

\* --------------------------------------------- the session outside the dance

\* OAuth2Session.authorized of requests_oauthlib: bool(self.access_token), the
\* access token held by the session's client
session_authorized(s) == Truthy(s.access_token)

\* OAuth2ConsumerBlueprint.load_token: session.token and session._client.token are
\* set to the token; _populate_attributes(token), which sets the client's
\* access_token, is called only if the token is not empty
LoadedSession(s, token) ==
    [s EXCEPT !.token = token, !.client_token = token,
              !.access_token = IF Truthy(token) THEN token ELSE @]

\* OAuth2Session.load_token(user, user_id): blueprint.user, blueprint.user_id,
\* blueprint.load_token(), which reads the token of that user
load_token(b, u) ==
    LET token == token_store[b][u] IN
    /\ nreq' = nreq + 1
    /\ bp_user' = [bp_user EXCEPT ![b] = [user |-> u, user_id |-> None]]
    /\ session' = [session EXCEPT ![b] = LoadedSession(@, token)]
    /\ call' = [NoCall EXCEPT !.op = "load_token", !.bp = b, !.user = u, !.loaded = token]
    /\ UNCHANGED <<config, flask_session, token_store, generated, last, issued, login_uri>>

\* the application sets or deletes the token of a user (blueprint.token = token,
\* del blueprint.token)
token_changed(b, u, token) ==
    /\ nreq' = nreq + 1
    /\ token_store' = set_token(token_store, b, u, token)
    /\ call' = [NoCall EXCEPT !.op = "token_changed", !.bp = b, !.user = u, !.value = token]
    /\ UNCHANGED <<config, flask_session, session, generated, last, issued, login_uri,
                   bp_user>>

\* faulty variant of client_id_setter: the client of the session is left alone
client_id_setter_session_only(s, value) == [s EXCEPT !.client_id = value]

\* client_id.setter: self.session.client_id = value; self.session._client.client_id = value
client_id_setter(s, value) == [s EXCEPT !.client_id = value, !.client_client_id = value]

\* client_id getter: return self.session.client_id
client_id(s) == s.client_id

\* blueprint.client_id = value
set_client_id(b, value) ==
    /\ nreq' = nreq + 1
    /\ session' = [session EXCEPT ![b] = client_id_setter(@, value)]
    /\ call' = [NoCall EXCEPT !.op = "set_client_id", !.bp = b, !.value = value]
    /\ UNCHANGED <<config, flask_session, token_store, generated, last, issued, login_uri,
                   bp_user>>

\* the directory of a URL's path: the path without its last segment, unless the
\* path ends with "/"
DirOf(url) ==
    IF url.dir \/ url.path = <<>> THEN url.path ELSE SubSeq(url.path, 1, Len(url.path) - 1)

\* URLObject.relative: the reference is resolved against the base as RFC 3986 5.2
\* does (the URLs here have no dot segments, query or fragment)
relative(base, other) ==
    IF other.scheme # "" THEN other
    ELSE IF other.netloc # "" THEN [other EXCEPT !.scheme = base.scheme]
    ELSE IF other.rooted THEN [other EXCEPT !.scheme = base.scheme, !.netloc = base.netloc]
    ELSE IF other.path # <<>>
      THEN Url(base.scheme, base.netloc, base.rooted, DirOf(base) \o other.path, other.dir)
    ELSE base

\* faulty variant of ResolvedUrl: base_url is not looked at
ResolvedUrlAsGiven(base_url, url) == url

\* request: if self.base_url: url = self.base_url.relative(url)
ResolvedUrl(base_url, url) ==
    IF base_url # EmptyUrl THEN relative(base_url, url) ELSE url

\* faulty variant of token_updater: the session has no token_updater
token_updater_unset(store, b, u, token) == store

\* self.session.token_updater = self.set_token
token_updater(store, b, u, token) == set_token(store, b, u, token)

\* arguments of a request: each URL, and one request with a body, headers and
\* further keyword arguments
ApiRequests ==
    {[NoApiRequest EXCEPT !.url = x] : x \in RequestUrls}
    \cup
    {[method |-> "POST", url |-> x, data |-> "d", headers |-> "h", kwargs |-> "k"] :
        x \in {y \in RequestUrls : y.scheme = "" /\ y.netloc = "" /\ ~y.rooted /\ ~y.dir}}

\* the request is sent, with the access token of the client if the session has a token
Dispatched(b, r, forwarded, steps) ==
    /\ call' = [NoCall EXCEPT !.op = "request", !.bp = b, !.user = bp_user[b].user,
                              !.request = r, !.forwarded = forwarded,
                              !.bearer = IF Truthy(session'[b].token)
                                         THEN session'[b].access_token ELSE None,
                              !.steps = Append(steps, "request"),
                              !.response = "response"]

\* the request is not sent: an exception leaves request()
NotDispatched(b, r, forwarded, steps, exception) ==
    /\ call' = [NoCall EXCEPT !.op = "request", !.bp = b, !.user = bp_user[b].user,
                              !.request = r, !.forwarded = forwarded,
                              !.steps = steps, !.response = exception]

\* OAuth2Session.request: the URL is resolved, and the request handed on to
\* requests_oauthlib's request with the other arguments as given; this adds the
\* token, and if the token has expired refreshes it at auto_refresh_url first and
\* calls token_updater with the new token
request(b, r) ==
    LET s == session[b]
        forwarded == [r EXCEPT !.url = ResolvedUrl(s.base_url, r.url)]
    IN  /\ nreq' = nreq + 1
        /\ IF ~Truthy(s.token)
             THEN /\ UNCHANGED <<session, token_store>>
                  /\ Dispatched(b, r, forwarded, <<>>)
           ELSE \E expired \in BOOLEAN :
             IF ~expired
               THEN /\ UNCHANGED <<session, token_store>>
                    /\ Dispatched(b, r, forwarded, <<>>)
             ELSE IF ~Truthy(s.auto_refresh_url)
               THEN /\ NotDispatched(b, r, forwarded, <<>>, "TokenExpiredError")
                    /\ UNCHANGED <<session, token_store>>
             ELSE \E answer \in ProviderAnswers :
               IF answer = ExchangeFailed
                 THEN /\ NotDispatched(b, r, forwarded, <<"refresh">>, "OAuth2Error")
                      /\ UNCHANGED <<session, token_store>>
               ELSE /\ session' = [session EXCEPT ![b].token = answer,
                                                  ![b].client_token = answer,
                                                  ![b].access_token = answer]
                    /\ token_store' = token_updater(token_store, b, bp_user[b].user, answer)
                    /\ Dispatched(b, r, forwarded, <<"refresh", "token_updater">>)
        /\ UNCHANGED <<config, flask_session, generated, last, issued, login_uri, bp_user>>

\* the sessions a blueprint can be constructed with: base_url not given, empty or
\* given with and without a final "/", and with or without auto_refresh_url
InitSession ==
    /\ config = [b \in Blueprints |->
                   [redirect_url |-> None, redirect_to |-> None, state |-> None]]
    /\ flask_session = [u \in Users |-> [k \in Keys |-> Absent]]
    /\ session \in [Blueprints ->
                      {[NoSession EXCEPT !.base_url = x, !.auto_refresh_url = a] :
                         x \in {EmptyUrl, NoneUrl} \cup BaseUrls, a \in {None, "/token"}}]
    /\ token_store \in [Blueprints -> [Users -> {None, "tokA"}]]
    /\ generated = 0
    /\ nreq = 0
    /\ last = Handled("none", "", "", NoArgs, "none", redirect(""),
                      NoRequest, None, <<>>, <<>>, <<>>)
    /\ issued = <<>>
    /\ login_uri = [b \in Blueprints |-> [u \in Users |-> NoUri]]
    /\ bp_user = [b \in Blueprints |-> NoUser]
    /\ call = NoCall

LoadToken ==
    /\ nreq < MaxRequests
    /\ \E b \in Blueprints, u \in Users : load_token(b, u)

TokenChanged ==
    /\ nreq < MaxRequests
    /\ \E b \in Blueprints, u \in Users, token \in {None, "tokB"} : token_changed(b, u, token)

SetClientId ==
    /\ nreq < MaxRequests
    /\ \E b \in Blueprints, value \in ClientIds : set_client_id(b, value)

Request ==
    /\ nreq < MaxRequests
    /\ \E b \in Blueprints, r \in ApiRequests : request(b, r)

NextSession == LoadToken \/ TokenChanged \/ SetClientId \/ Request

SpecSession == InitSession /\ [][NextSession]_vars

\* ====================================================== properties

\* the step is the handling of one request by the view function op
Step(op) == nreq' = nreq + 1 /\ last'.op = op

\* the flask.session entry of the flow and user of a handled request
StoredFor(fs, r) == fs[r.user][state_key(r.bp)]

\* C1: an authorized() call that reaches the CSRF validation (no error argument)
\* leaves no state stored under the flow's key, and such a call that finds no state
\* stored (a replay, no login() in between) fails with no token request sent and
\* nothing written to the token storage.
C1_StateConsumedOnce ==
    [][(Step("authorized") /\ ~Truthy(last'.args.error)) =>
         /\ StoredFor(flask_session', last') = Absent
         /\ StoredFor(flask_session, last') = Absent =>
              /\ last'.response = raise("KeyError")
              /\ ~last'.sent.sent
              /\ last'.writes = <<>>
              /\ token_store' = token_store]_vars

\* C1 witness: one login(), a callback that stored a token, and the same user's
\* replay of the callback with the state of that login(), which failed.
C1_Replayed ==
    /\ nreq = 3 /\ Len(issued) = 1
    /\ last.op = "authorized" /\ last.branch = "no_state"
    /\ last.args.state = issued[1].state /\ last.args.code = "abc"
    /\ token_store[last.bp][last.user] \in Tokens

\* C2: authorized() with a non-empty error argument sends no token request, leaves
\* the token storage unchanged, emits exactly one oauth_error event with error,
\* error_description and error_uri and no oauth_authorized event, and redirects to
\* next_url.
C2_ProviderError ==
    [][(Step("authorized") /\ Truthy(last'.args.error)) =>
         /\ ~last'.sent.sent
         /\ last'.writes = <<>>
         /\ token_store' = token_store
         /\ last'.events = << [name |-> "oauth_error", error |-> last'.args.error,
                               error_description |-> last'.args.error_description,
                               error_uri |-> last'.args.error_uri, token |-> None] >>
         /\ last'.response = redirect(NextUrl(config[last'.bp], last'.args))]_vars

\* C2 witness: the provider denied a user whose login() state is pending.
C2_Denied ==
    /\ last.op = "authorized" /\ last.branch = "provider_error"
    /\ last.args.error = "access_denied" /\ last.args.error_description = "denied"
    /\ StoredFor(flask_session, last) # Absent

\* C3 as stated: after a successful exchange, the token storage is written (once,
\* with the token of the exchange) unless a receiver returned False itself.
C3_OnlyFalseVetoes ==
    (last.op = "authorized" /\ last.token # None) =>
        IF \E i \in 1..Len(last.results) : last.results[i] = PyFalse
        THEN last.writes = <<>>
        ELSE last.writes = <<last.token>>

\* C3 amended: after a successful exchange, the token storage is left alone if a
\* receiver returned a value equal to False (False or 0), and is otherwise written
\* exactly once, with the token of the exchange.
C3_EqualToFalseVetoes ==
    [][(Step("authorized") /\ last'.token # None) =>
         IF \E i \in 1..Len(last'.results) : last'.results[i] \in {PyFalse, PyZero}
         THEN /\ last'.writes = <<>>
              /\ token_store' = token_store
         ELSE /\ last'.writes = <<last'.token>>
              /\ token_store' = [token_store EXCEPT ![last'.bp][last'.user] = last'.token]
      ]_vars

\* C3 witness: a receiver returned 0 and the token was not stored.
C3_ZeroVetoed ==
    /\ last.op = "authorized" /\ last.token = "tokB"
    /\ last.results = <<PyZero>>
    /\ token_store[last.bp][last.user] = None

\* C4: authorized() with no state stored for the flow, or with a stored state that
\* differs from the state argument, sends no token request, emits no
\* oauth_authorized event and leaves the token storage unchanged.
C4_FailsClosed ==
    [][(/\ Step("authorized")
        /\ \/ StoredFor(flask_session, last') = Absent
           \/ StoredFor(flask_session, last') # last'.args.state) =>
         /\ ~last'.sent.sent
         /\ \A i \in 1..Len(last'.events) : last'.events[i].name # "oauth_authorized"
         /\ token_store' = token_store]_vars

\* C4 witness: a callback with code and a forged state was rejected while the
\* user's login() state was pending.
C4_Forged ==
    /\ last.op = "authorized" /\ last.response = raise("MismatchingStateError")
    /\ last.args.state = "forged" /\ last.args.code = "abc"
    /\ Len(issued) > 0

\* the target the precedence of the specification gives
C5_Target(cfg, args) ==
    CASE args.next # Absent -> args.next
      [] args.next = Absent /\ cfg.redirect_url # None -> cfg.redirect_url
      [] args.next = Absent /\ cfg.redirect_url = None /\ cfg.redirect_to # None ->
            url_for(cfg.redirect_to)
      [] OTHER -> "/"

\* C5: whenever authorized() redirects, on the provider-error branch as on the
\* success branch, the target is the next argument if present, else redirect_url if
\* set, else the URL of redirect_to if set, else "/".
C5_Precedence ==
    (last.op = "authorized" /\ last.branch \in {"provider_error", "vetoed", "saved"}) =>
        last.response = redirect(C5_Target(config[last.bp], last.args))

\* C5 witness: with redirect_url and redirect_to both set and no next, a stored
\* token ended in a redirect to redirect_url.
C5_StaticOverEndpoint ==
    /\ last.op = "authorized" /\ last.branch = "saved"
    /\ last.args.next = Absent
    /\ config[last.bp].redirect_url = "/b" /\ config[last.bp].redirect_to = "home"
    /\ last.response = redirect("/b")

\* C6 as stated: every authorized() call other than one whose token exchange fails
\* ends in a redirect to next_url.
C6_RedirectUnlessExchangeFails ==
    (last.op = "authorized" /\ last.branch # "exchange_failed") =>
        last.response = redirect(NextUrl(config[last.bp], last.args))

\* C7 as stated: after an authorized() call that completes (provider error,
\* success, veto) no CSRF state is stored under the flow's key.
C7_IdleAfterAuthorized ==
    (last.op = "authorized" /\ last.response.kind = "redirect") =>
        StoredFor(flask_session, last) = Absent

\* C8 as stated: the token request of a user's callback carries the redirect_uri
\* built by that user's own login() and the state stored by it.
C8_OwnRedirectUri ==
    (last.op = "authorized" /\ last.sent.sent) =>
        /\ last.sent.redirect_uri = login_uri[last.bp][last.user]
        /\ last.sent.state = last.args.state

C10_LoginOnlyStoresState ==
    [][Step("login") =>
         /\ token_store' = token_store
         /\ last'.events = <<>>
         /\ session' = session
         /\ \A u \in Users, k \in Keys :
              (u # last'.user \/ k # state_key(last'.bp)) =>
                 flask_session'[u][k] = flask_session[u][k]
         /\ last'.response = redirect("authorization_url")]_vars

\* C15: when the token endpoint does not answer with a token, authorized() raises:
\* it returns no redirect, emits no event and writes nothing to the token storage;
\* the one token request is all it sent; and the CSRF state of the flow is gone, so
\* that the same callback finds no state.
C15_ExchangeFailurePropagates ==
    [][(Step("authorized") /\ last'.branch = "exchange_failed") =>
         /\ last'.sent.sent
         /\ last'.response.kind = "raise"
         /\ last'.events = <<>>
         /\ last'.writes = <<>>
         /\ last'.token = None
         /\ token_store' = token_store
         /\ StoredFor(flask_session', last') = Absent]_vars

\* C15 witness: the exchange of a callback with the pending state failed.
C15_Failed ==
    /\ last.op = "authorized" /\ last.branch = "exchange_failed"
    /\ last.sent.code = "abc" /\ last.sent.state = last.args.state
    /\ last.response = raise("OAuth2Error")

\* the scheme the specification gives for a request
C16_Scheme(args) == IF args.is_secure \/ args.xfp = "https" THEN "https" ELSE "http"

\* C16: the callback URL login() builds and the authorization-response URL
\* authorized() hands to fetch_token both have the scheme https when the request is
\* secure or forwarded as https, and http otherwise.
C16_SameScheme ==
    /\ last.op = "login" => last.sent.redirect_uri.scheme = C16_Scheme(last.args)
    /\ (last.op = "authorized" /\ last.sent.sent) =>
            last.sent.authorization_response = C16_Scheme(last.args)

\* C16 witness: a callback over TLS without the forwarding header was exchanged
\* with an https authorization-response URL.
C16_DirectTls ==
    /\ last.op = "authorized" /\ last.sent.sent
    /\ last.args.is_secure /\ last.args.xfp = "http"
    /\ last.sent.authorization_response = "https"

\* C17: the callback URL login() builds carries the next of the login request (and
\* none if there was none); a callback that arrives with a next redirects to
\* exactly it, whatever is configured, and one without is redirected by the
\* configuration alone.
C17_NextCarried ==
    /\ last.op = "login" => last.sent.redirect_uri.next = last.args.next
    /\ (last.op = "authorized" /\ last.response.kind = "redirect") =>
            IF last.args.next # Absent
            THEN last.response.to = last.args.next
            ELSE last.response.to = C5_Target(config[last.bp], NoArgs)

\* C17 witness: a callback to the URL built by the user's login() with next=/a
\* stored a token and redirected to /a although redirect_url is set.
C17_NextWins ==
    /\ last.op = "authorized" /\ last.branch = "saved"
    /\ login_uri[last.bp][last.user].next = "/a" /\ last.args.next = "/a"
    /\ config[last.bp].redirect_url = "/b"
    /\ last.response = redirect("/a")

\* all login() calls so far were of the user u on the flow b, none answered yet
OnlyLoginsOf(b, u) ==
    /\ nreq = Len(issued)
    /\ \A v \in Users, k \in Keys :
         (v # u \/ k # state_key(b)) => flask_session[v][k] = Absent

C20_VetoedTokenUnused ==
    [][(Step("authorized") /\ last'.branch = "vetoed") =>
         /\ token_store' = token_store
         /\ session'[last'.bp].token = session[last'.bp].token
         /\ session'[last'.bp].client_token = session[last'.bp].client_token
         /\ session'[last'.bp].access_token = session[last'.bp].access_token]_vars

\* the step is one call of op on a blueprint or its session
Called(op) == nreq' = nreq + 1 /\ call'.op = op

\* C11 as stated: after load_token() the session is authorized exactly if the
\* token loaded is not empty, and the session's token, its client's token and the
\* client's access token are those of the token loaded.
C11_LoadedTokenInUse ==
    call.op = "load_token" =>
        LET s == session[call.bp] IN
        /\ session_authorized(s) = Truthy(call.loaded)
        /\ s.token = call.loaded
        /\ s.client_token = call.loaded
        /\ s.access_token = call.loaded

\* C12: an assignment to blueprint.client_id sets the client_id read from the
\* blueprint, the session's and the session's client's to the value assigned and
\* changes nothing else; no other call changes them.
C12_ClientIdAssigned ==
    [][/\ Called("set_client_id") =>
            LET b == call'.bp
                value == call'.value
            IN  /\ client_id(session'[b]) = value
                /\ session'[b].client_id = value
                /\ session'[b].client_client_id = value
                /\ session' = [session EXCEPT ![b].client_id = value,
                                              ![b].client_client_id = value]
                /\ UNCHANGED <<config, token_store, bp_user, flask_session>>
       /\ ~Called("set_client_id") =>
            \A b \in DOMAIN session :
                /\ session'[b].client_id = session[b].client_id
                /\ session'[b].client_client_id = session[b].client_client_id]_vars

\* C12 witness: a client_id assigned after another call, read back from all three.
C12_Reassigned ==
    /\ nreq >= 2 /\ call.op = "set_client_id" /\ call.value = "cid3"
    /\ client_id(session[call.bp]) = "cid3"
    /\ session[call.bp].client_client_id = "cid3"

\* the text of a path and of a URL
RECURSIVE JoinPath(_)
JoinPath(path) ==
    IF path = <<>> THEN ""
    ELSE IF Len(path) = 1 THEN path[1]
    ELSE path[1] \o "/" \o JoinPath(Tail(path))

Render(url) ==
    (IF url.scheme # "" THEN url.scheme \o ":" ELSE "")
    \o (IF url.netloc # "" THEN "//" \o url.netloc ELSE "")
    \o (IF url.rooted THEN "/" ELSE "")
    \o JoinPath(url.path)
    \o (IF url.dir /\ url.path # <<>> THEN "/" ELSE "")

\* path ends with the segments of suffix
EndsWith(path, suffix) ==
    /\ Len(suffix) <= Len(path)
    /\ SubSeq(path, Len(path) - Len(suffix) + 1, Len(path)) = suffix

\* C13: request() hands on method, data, headers and further arguments as given;
\* the URL as given if no base_url is configured or if the URL is absolute;
\* otherwise a URL of the scheme and host of base_url whose path ends with the
\* path given, which for a base_url ending in "/" and a path not starting with "/"
\* is the text of base_url followed by the text of the URL.
C13_UrlResolved ==
    call.op = "request" =>
        LET base == session[call.bp].base_url
            r == call.request
            f == call.forwarded
        IN  /\ f.method = r.method /\ f.data = r.data
            /\ f.headers = r.headers /\ f.kwargs = r.kwargs
            /\ base \in {EmptyUrl, NoneUrl} => f.url = r.url
            /\ r.url.scheme # "" => f.url = r.url
            /\ (base \in BaseUrls /\ r.url.scheme = "" /\ r.url.netloc = "") =>
                 /\ f.url.scheme = base.scheme /\ f.url.netloc = base.netloc
                 /\ EndsWith(f.url.path, r.url.path) /\ f.url.dir = r.url.dir
                 /\ (base.dir /\ ~r.url.rooted) =>
                        Render(f.url) = Render(base) \o Render(r.url)

\* C13 witness: users/me requested of a session with base_url
\* https://api.example.com/v1/, with a body and headers.
C13_Joined ==
    /\ call.op = "request" /\ call.request.method = "POST"
    /\ Render(session[call.bp].base_url) = "https://api.example.com/v1/"
    /\ Render(call.request.url) = "users/me"
    /\ Render(call.forwarded.url) = "https://api.example.com/v1/users/me"
    /\ call.forwarded.data = "d" /\ call.forwarded.headers = "h"

\* C14: the request of a user to one blueprint leaves alone the state stored for
\* the other blueprint, and the other blueprint's session and tokens; login()
\* stores its state under the blueprint's own key, and authorized() checks the
\* callback against the state stored under the blueprint's own key and deletes
\* that one.
C14_OwnStateOnly ==
    [][\A b \in AllBlueprints : (nreq' = nreq + 1 /\ last'.bp = b) =>
         LET stored == flask_session[last'.user][state_key(b)] IN
         /\ \A c \in AllBlueprints \ {b} :
               /\ flask_session'[last'.user][state_key(c)]
                    = flask_session[last'.user][state_key(c)]
               /\ session'[c] = session[c]
               /\ token_store'[c] = token_store[c]
         /\ last'.op = "login" =>
               flask_session'[last'.user][state_key(b)] = last'.sent.state
         /\ (last'.op = "authorized" /\ ~Truthy(last'.args.error)) =>
               /\ stored = Absent => last'.response = raise("KeyError")
               /\ stored # Absent =>
                    /\ session'[b]._state = stored
                    /\ last'.response = raise("MismatchingStateError")
                         <=> last'.args.state # stored
                    /\ last'.sent.sent => last'.sent.state = stored
               /\ flask_session'[last'.user][state_key(b)] = Absent]_vars

\* C14 witness: the user logged in on google, then on github, and then both
\* callbacks stored a token.
C14_Interleaved ==
    /\ nreq = 4 /\ Len(issued) = 2
    /\ issued[1].bp = "google" /\ issued[2].bp = "github"
    /\ \A b \in AllBlueprints : token_store[b][FlowUser] # None
    /\ last.op = "authorized" /\ last.bp = "github" /\ last.branch = "saved"

\* C18: a request() that refreshes the token either hands the new token to
\* token_updater, which writes it to the token storage of the user, and then sends
\* the request with the new token; or the refresh fails, and the request is not
\* sent and the token storage is as it was.
C18_RefreshBeforeRequest ==
    [][(Called("request") /\ call'.steps # <<>> /\ Head(call'.steps) = "refresh") =>
         IF call'.response = "response"
         THEN /\ call'.steps = <<"refresh", "token_updater", "request">>
              /\ call'.bearer \in Tokens
              /\ session'[call'.bp].token = call'.bearer
              /\ token_store' = [token_store EXCEPT ![call'.bp][call'.user] = call'.bearer]
         ELSE /\ call'.steps = <<"refresh">>
              /\ call'.bearer = None
              /\ token_store' = token_store
              /\ session' = session]_vars

\* C18 witness: tokA was loaded for a user, and the request refreshed it to tokB,
\* stored for that user.
C18_Refreshed ==
    /\ nreq = 2 /\ call.op = "request"
    /\ call.steps = <<"refresh", "token_updater", "request">>
    /\ call.bearer = "tokB"
    /\ token_store[call.bp][call.user] = "tokB"

====
